---------------------------- MODULE Spec2Model ----------------------------
(***************************************************************************)
(* The DXF viewer kernel of web-ui: dxfViewerService.parseDxfContent (the  *)
(* entity extractor), dxfViewerService.convertDxfToSvg (the SVG projector) *)
(* and the part of DxfViewer.loadDxfFile that runs after the bytes have    *)
(* arrived.                                                                *)
(*                                                                         *)
(* A document is the sequence of its lines, each line held as its trimmed  *)
(* text.  JavaScript numbers are modelled as exact rationals extended with *)
(* NaN, Infinity and -Infinity; the sign of zero is dropped, which the     *)
(* markup cannot show (String(-0) is "0").                                 *)
(***************************************************************************)
EXTENDS Integers, Sequences, FiniteSets, TLC

---------------------------------------------------------------------------
(* Bounds of the model *)

\* tag pairs that follow the header of a generated document
MaxPairs == 4
\* entities of a list handed directly to convertDxfToSvg
MaxEnts == 2
\* vertices of one such entity
MaxVerts == 2

---------------------------------------------------------------------------
(* JavaScript values *)

\* null and undefined, written so that no trimmed line can equal them
Null == " null"
Undefined == " undefined"

Abs(n) == IF n < 0 THEN -n ELSE n

RECURSIVE Gcd(_, _)
Gcd(a, b) == IF b = 0 THEN a ELSE Gcd(b, a % b)

NaN == [k |-> "nan", n |-> 0, d |-> 1]
PosInf == [k |-> "inf", n |-> 1, d |-> 1]
NegInf == [k |-> "inf", n |-> -1, d |-> 1]
NullNum == [k |-> "null", n |-> 0, d |-> 1]
UndefNum == [k |-> "undef", n |-> 0, d |-> 1]

\* the number n/d (d # 0) in lowest terms
Rat(n, d) ==
    LET g == Gcd(Abs(n), Abs(d))
        s == IF d < 0 THEN -1 ELSE 1
    IN [k |-> "fin", n |-> (s * n) \div g, d |-> (s * d) \div g]

Fin(n) == [k |-> "fin", n |-> n, d |-> 1]

IsNaN(a) == a.k = "nan"
IsFinite(a) == a.k = "fin"

\* a < b on numbers other than NaN
NumLess(a, b) ==
    CASE a.k = "inf" /\ b.k = "inf" -> a.n < b.n
      [] a.k = "inf" -> a.n < 0
      [] b.k = "inf" -> b.n > 0
      [] OTHER -> a.n * b.d < b.n * a.d

MathMin(a, b) == IF IsNaN(a) \/ IsNaN(b) THEN NaN ELSE IF NumLess(b, a) THEN b ELSE a
MathMax(a, b) == IF IsNaN(a) \/ IsNaN(b) THEN NaN ELSE IF NumLess(a, b) THEN b ELSE a

NumNeg(a) ==
    CASE a.k = "nan" -> NaN
      [] a.k = "inf" -> [a EXCEPT !.n = -a.n]
      [] OTHER -> Rat(-a.n, a.d)

NumAdd(a, b) ==
    CASE IsNaN(a) \/ IsNaN(b) -> NaN
      [] a.k = "inf" /\ b.k = "inf" -> IF a.n = b.n THEN a ELSE NaN
      [] a.k = "inf" -> a
      [] b.k = "inf" -> b
      [] OTHER -> Rat(a.n * b.d + b.n * a.d, a.d * b.d)

NumSub(a, b) == NumAdd(a, NumNeg(b))

NumSign(a) == IF a.n > 0 THEN 1 ELSE IF a.n < 0 THEN -1 ELSE 0

NumMul(a, b) ==
    CASE IsNaN(a) \/ IsNaN(b) -> NaN
      [] a.k = "inf" \/ b.k = "inf" ->
            IF NumSign(a) * NumSign(b) = 0 THEN NaN
            ELSE IF NumSign(a) * NumSign(b) > 0 THEN PosInf ELSE NegInf
      [] OTHER -> Rat(a.n * b.n, a.d * b.d)

\* a / b; a zero divisor is +0, as the difference of two equal numbers is
NumDiv(a, b) ==
    CASE IsNaN(a) \/ IsNaN(b) -> NaN
      [] a.k = "inf" /\ b.k = "inf" -> NaN
      [] a.k = "inf" -> IF NumSign(b) < 0 THEN NumNeg(a) ELSE a
      [] b.k = "inf" -> Fin(0)
      [] b.n = 0 -> IF a.n = 0 THEN NaN ELSE IF a.n > 0 THEN PosInf ELSE NegInf
      [] OTHER -> Rat(a.n * b.d, a.d * b.n)

---------------------------------------------------------------------------
(* Text to number *)

\* parseFloat on the value texts of the documents below: a decimal literal
\* gives its number, any other text gives NaN
ParseFloat(s) ==
    CASE s \in {"0", "0.0"} -> Fin(0)
      [] s = "2" -> Fin(2)
      [] s = "3" -> Fin(3)
      [] s = "4" -> Fin(4)
      [] s = "5" -> Fin(5)
      [] s = "7" -> Fin(7)
      [] s = "8" -> Fin(8)
      [] s \in {"10", "10.0"} -> Fin(10)
      [] s \in {"20", "20.0"} -> Fin(20)
      [] s \in {"30", "30.0"} -> Fin(30)
      [] s \in {"40", "40.0"} -> Fin(40)
      [] s \in {"50", "50.0"} -> Fin(50)
      [] s = "90" -> Fin(90)
      [] s \in {"100", "100.0"} -> Fin(100)
      [] OTHER -> NaN

\* parseInt reads the leading integer digits; on these texts it agrees with
\* parseFloat ("10.0" gives 10)
ParseInt(s) == ParseFloat(s)

---------------------------------------------------------------------------
(* Documents *)

\* a document built from group-code / value pairs: code line, value line
Flatten(pairs) ==
    [k \in 1..(2 * Len(pairs)) |->
        IF k % 2 = 1 THEN pairs[(k + 1) \div 2][1] ELSE pairs[k \div 2][2]]

SectionMarker == <<"2", "ENTITIES">>
PolylineMarker == <<"0", "LWPOLYLINE">>

\* the tag pairs generated documents are made of
PairAlphabet ==
    { PolylineMarker, <<"0", "LINE">>, <<"0", "ENDSEC">>,
      <<"8", "0">>, <<"8", "scrap">>,
      <<"10", "5">>, <<"20", "7">>, <<"10", "abc">>,
      <<"90", "10">>, <<"90", "8">>, <<"90", "2">> }

\* how a generated document starts: with no section marker, with the marker,
\* or with a polyline on layer "0" ahead of the marker
Leads ==
    { <<>>, <<SectionMarker>>, <<SectionMarker, PolylineMarker>>,
      <<PolylineMarker, <<"8", "0">>, SectionMarker>> }

Bodies == UNION { [1..n -> PairAlphabet] : n \in 0..MaxPairs }

\* one vertex as the two tag pairs that write it
VertexTags(x, y) == << <<"10", x>>, <<"20", y>> >>

\* the two-polyline drawing: layer "0" with (0,0),(100,0),(100,50),(0,50),
\* then layer "details" with (10,10),(40,10),(40,30); the numbers written as
\* integers ...
TwoPolylinesInt ==
    Flatten(<<SectionMarker, PolylineMarker, <<"8", "0">>, <<"90", "4">> >>
            \o VertexTags("0", "0") \o VertexTags("100", "0")
            \o VertexTags("100", "50") \o VertexTags("0", "50")
            \o <<PolylineMarker, <<"8", "details">>, <<"90", "3">> >>
            \o VertexTags("10", "10") \o VertexTags("40", "10")
            \o VertexTags("40", "30")
            \o << <<"0", "ENDSEC">> >>)

\* ... and with the coordinates written with a decimal point
TwoPolylinesFloat ==
    Flatten(<<SectionMarker, PolylineMarker, <<"8", "0">>, <<"90", "4">> >>
            \o VertexTags("0.0", "0.0") \o VertexTags("100.0", "0.0")
            \o VertexTags("100.0", "50.0") \o VertexTags("0.0", "50.0")
            \o <<PolylineMarker, <<"8", "details">>, <<"90", "3">> >>
            \o VertexTags("10.0", "10.0") \o VertexTags("40.0", "10.0")
            \o VertexTags("40.0", "30.0")
            \o << <<"0", "ENDSEC">> >>)

Documents ==
    { Flatten(lead \o body) : lead \in Leads, body \in Bodies }
        \cup { TwoPolylinesInt, TwoPolylinesFloat }

---------------------------------------------------------------------------
(* parseDxfContent *)

AllowedLayers == { "0", "work_area", "details" }

\* currentLayer === '0' || currentLayer === 'work_area' || currentLayer === 'details'
LayerAllowed(layer) == layer \in AllowedLayers

NoEntity == [type |-> Null,
             data |-> [layer |-> Undefined, vertexCount |-> UndefNum],
             vertices |-> <<>>]

\* { type: entityType, data: {}, vertices: [] }
NewEntity(entityType) ==
    [type |-> entityType,
     data |-> [layer |-> Undefined, vertexCount |-> UndefNum],
     vertices |-> <<>>]

\* as InitialLocals, were the scan to start inside the section
InitialLocalsInSection ==
    [entities |-> <<>>, currentEntity |-> NoEntity, inEntity |-> FALSE,
     inEntitiesSection |-> TRUE, currentLayer |-> Null,
     vertexCount |-> Fin(0), vertices |-> <<>>, expectingY |-> FALSE,
     lastX |-> NullNum]

\* the locals of parseDxfContent as the loop starts
InitialLocals ==
    [entities |-> <<>>, currentEntity |-> NoEntity, inEntity |-> FALSE,
     inEntitiesSection |-> FALSE, currentLayer |-> Null,
     vertexCount |-> Fin(0), vertices |-> <<>>, expectingY |-> FALSE,
     lastX |-> NullNum]

\* i + 1 < lines.length, for the index counted from 1
HasNext(ls, idx) == idx + 1 <= Len(ls)

\* the previous entity is kept when its layer is one of the three
PushCurrent(s) ==
    IF s.currentEntity # NoEntity /\ LayerAllowed(s.currentLayer)
    THEN Append(s.entities, [s.currentEntity EXCEPT !.vertices = s.vertices])
    ELSE s.entities

\* a '0' line followed by 'LWPOLYLINE': keep the previous entity, start a new one
StartPolyline(s, entityType) ==
    [s EXCEPT !.entities = PushCurrent(s),
              !.currentEntity = NewEntity(entityType),
              !.currentLayer = Null,
              !.vertexCount = Fin(0),
              !.vertices = <<>>,
              !.expectingY = FALSE,
              !.lastX = NullNum,
              !.inEntity = TRUE]

\* the '20' branch: the Y is taken only while an X is pending
ReadY(s, next) ==
    [s EXCEPT !.vertices = Append(s.vertices, [x |-> s.lastX, y |-> ParseFloat(next)]),
              !.expectingY = FALSE,
              !.lastX = NullNum]

\* the if / else-if chain on the group code of the current line
ReadTag(s, line, hasNext, next) ==
    IF line = "8" /\ hasNext
    THEN [s EXCEPT !.currentLayer = next, !.currentEntity.data.layer = next]
    ELSE IF line = "90" /\ hasNext
    THEN [s EXCEPT !.vertexCount = ParseInt(next),
                   !.currentEntity.data.vertexCount = ParseInt(next)]
    ELSE IF line = "10" /\ hasNext
    THEN [s EXCEPT !.lastX = ParseFloat(next), !.expectingY = TRUE]
    ELSE IF line = "20" /\ hasNext /\ s.expectingY /\ s.lastX # NullNum
    THEN ReadY(s, next)
    ELSE s

\* the '0' line: only 'LWPOLYLINE' starts an entity
ReadEntityStart(s, line, hasNext, next) ==
    IF line = "0" /\ hasNext /\ next = "LWPOLYLINE"
    THEN StartPolyline(s, next)
    ELSE s

\* one pass of the for loop, on line idx
Iteration(s, ls, idx) ==
    LET line == ls[idx]
        hasNext == HasNext(ls, idx)
        next == IF hasNext THEN ls[idx + 1] ELSE Undefined
    IN IF line = "2" /\ hasNext /\ next = "ENTITIES"
       THEN [s EXCEPT !.inEntitiesSection = TRUE]
       ELSE IF ~s.inEntitiesSection
       THEN s
       ELSE LET s1 == ReadEntityStart(s, line, hasNext, next)
            IN IF s1.inEntity /\ s1.currentEntity # NoEntity
               THEN ReadTag(s1, line, hasNext, next)
               ELSE s1

\* the loop from line idx to the end
RECURSIVE ScanFrom(_, _, _)
ScanFrom(s, ls, idx) ==
    IF idx > Len(ls) THEN s
    ELSE LET after == Iteration(s, ls, idx)
         \* the test holds always: a pass is evaluated before the next starts
         IN IF after.inEntity \in BOOLEAN THEN ScanFrom(after, ls, idx + 1) ELSE after

---------------------------------------------------------------------------
(* convertDxfToSvg *)

\* the entities argument: an array, or a value that is no array (null)
JsArray(items) == [isArray |-> TRUE, items |-> items]
JsNull == [isArray |-> FALSE, items |-> <<>>]

\* minX = Infinity, minY = Infinity, maxX = -Infinity, maxY = -Infinity
EmptyBounds == [minX |-> PosInf, minY |-> PosInf, maxX |-> NegInf, maxY |-> NegInf]

\* the body of the inner forEach: one vertex folded into the bounds
FoldVertex(b, vertex) ==
    [minX |-> MathMin(b.minX, vertex.x), maxX |-> MathMax(b.maxX, vertex.x),
     minY |-> MathMin(b.minY, vertex.y), maxY |-> MathMax(b.maxY, vertex.y)]

RECURSIVE FoldVertices(_, _)
FoldVertices(b, vs) ==
    IF vs = <<>> THEN b ELSE FoldVertices(FoldVertex(b, Head(vs)), Tail(vs))

\* the two nested forEach loops over every vertex of every entity
RECURSIVE FoldEntities(_, _)
FoldEntities(b, ents) ==
    IF ents = <<>> THEN b
    ELSE FoldEntities(FoldVertices(b, Head(ents).vertices), Tail(ents))

Bounds(ents) == FoldEntities(EmptyBounds, ents)

\* as MarginFactor, with a factor above 1
MarginFactorBeyondOne == Rat(6, 5)

\* the literal 0.8
MarginFactor == Rat(4, 5)

\* Math.min(width / dx, height / dy) * 0.8
Scale(b, width, height) ==
    LET dx == NumSub(b.maxX, b.minX)
        dy == NumSub(b.maxY, b.minY)
    IN NumMul(MathMin(NumDiv(Fin(width), dx), NumDiv(Fin(height), dy)), MarginFactor)

CenterX(b) == NumDiv(NumAdd(b.minX, b.maxX), Fin(2))
CenterY(b) == NumDiv(NumAdd(b.minY, b.maxY), Fin(2))

\* translate(width/2, height/2) scale(scale) translate(-centerX, -centerY)
Transform(b, width, height) ==
    [translateX |-> NumDiv(Fin(width), Fin(2)),
     translateY |-> NumDiv(Fin(height), Fin(2)),
     scale |-> Scale(b, width, height),
     translateCenterX |-> NumNeg(CenterX(b)),
     translateCenterY |-> NumNeg(CenterY(b))]

BoundaryStyle == [stroke |-> "#2E86AB", strokeWidth |-> "2"]
SecondaryStyle == [stroke |-> "#A23B72", strokeWidth |-> "1.5"]
DefaultStyle == [stroke |-> "black", strokeWidth |-> "1"]

\* as StrokeOf, with 'work_area' left out of the first test
StrokeOfForgetsWorkArea(layer) ==
    IF layer = "0" THEN BoundaryStyle
    ELSE IF layer = "details" THEN SecondaryStyle
    ELSE DefaultStyle

\* the stroke lookup on entity.data.layer
StrokeOf(layer) ==
    IF layer = "0" \/ layer = "work_area" THEN BoundaryStyle
    ELSE IF layer = "details" THEN SecondaryStyle
    ELSE DefaultStyle

\* as PathData, with a close-path command after the last vertex
PathDataClosed(vs) ==
    IF vs = <<>> THEN <<>>
    ELSE [k \in 1..(Len(vs) + 1) |->
            IF k = Len(vs) + 1 THEN [cmd |-> "Z", x |-> vs[1].x, y |-> vs[1].y]
            ELSE [cmd |-> IF k = 1 THEN "M" ELSE "L", x |-> vs[k].x, y |-> vs[k].y]]

\* M first vertex, then L for each further vertex
PathData(vs) ==
    [k \in 1..Len(vs) |->
        [cmd |-> IF k = 1 THEN "M" ELSE "L", x |-> vs[k].x, y |-> vs[k].y]]

\* entity.type === 'LWPOLYLINE' && entity.vertices.length > 0
DrawsPath(entity) == entity.type = "LWPOLYLINE" /\ Len(entity.vertices) > 0

PathOf(entity) ==
    [d |-> PathData(entity.vertices), fill |-> "none",
     stroke |-> StrokeOf(entity.data.layer).stroke,
     strokeWidth |-> StrokeOf(entity.data.layer).strokeWidth]

\* the second forEach: the path elements, in entity order
RECURSIVE Paths(_)
Paths(ents) ==
    IF ents = <<>> THEN <<>>
    ELSE (IF DrawsPath(Head(ents)) THEN <<PathOf(Head(ents))>> ELSE <<>>)
         \o Paths(Tail(ents))

\* the string '' of the catch branch; also the first svgContent
EmptyString ==
    [kind |-> "empty", width |-> 0, height |-> 0,
     transform |-> Transform(EmptyBounds, 0, 0), paths |-> <<>>]

\* the markup: <svg width height viewBox><g transform> paths </g></svg>
Markup(ents, width, height) ==
    [kind |-> "svg", width |-> width, height |-> height,
     transform |-> Transform(Bounds(ents), width, height),
     paths |-> Paths(ents)]

\* as Throws, were the bounds seeded from entities[0].vertices[0]: the empty
\* list throws too
ThrowsOnEmptyList(arg) == ~arg.isArray \/ arg.items = <<>>

\* entities.length of a value that is no array throws inside the try
Throws(arg) == ~arg.isArray

\* an exception that leaves the function
Thrown ==
    [kind |-> "thrown", width |-> 0, height |-> 0,
     transform |-> Transform(EmptyBounds, 0, 0), paths |-> <<>>]

\* as ConvertDxfToSvg, without the catch
ConvertDxfToSvgNoCatch(arg, width, height) ==
    IF Throws(arg) THEN Thrown ELSE Markup(arg.items, width, height)

ConvertDxfToSvg(arg, width, height) ==
    IF Throws(arg) THEN EmptyString ELSE Markup(arg.items, width, height)

\* the characters of the markup that do not depend on the input
FixedMarkupChars == 136

\* a lower bound of svg.length: every printed number and path adds to it
MarkupLength(text) == IF text = EmptyString THEN 0 ELSE FixedMarkupChars

---------------------------------------------------------------------------
(* DxfViewer.loadDxfFile, after the fetch *)

ViewWidth == 800
ViewHeight == 600
MinSvgLength == 100

NoError == Null
\* the two messages of setError, by what they say
ErrNoEntities == "the DXF file holds no data to display"
ErrNoSvg == "could not generate the SVG"

\* !svg || svg.length < 100
SvgRejected(text) == text = EmptyString \/ MarkupLength(text) < MinSvgLength

ErrLoad == "could not load the DXF file: <message>"

---------------------------------------------------------------------------
(* DxfViewer: zoom *)

\* Every zoom factor the handlers produce is a product of powers of 2, 3, 5
\* and 11: 1.2 = 6/5, 1.1 = 11/10, 0.9 = 9/10, and the limits 5 and 1/10. A
\* factor is kept as its four exponents, so that products are exact.
ZoomOf(e2, e3, e5, e11) == [e2 |-> e2, e3 |-> e3, e5 |-> e5, e11 |-> e11]

\* useState(1)
InitialZoom == ZoomOf(0, 0, 0, 0)
\* the limits 5 and 0.1
MaxZoom == ZoomOf(0, 0, 1, 0)
MinZoom == ZoomOf(-1, 0, -1, 0)
\* the factor 1.2 of the two buttons
ButtonStep == ZoomOf(1, 1, -1, 0)
\* the factors 1.1 and 0.9 of the wheel
WheelUpStep == ZoomOf(-1, 0, -1, 1)
WheelDownStep == ZoomOf(-1, 2, -1, 0)

ZoomMul(a, b) ==
    ZoomOf(a.e2 + b.e2, a.e3 + b.e3, a.e5 + b.e5, a.e11 + b.e11)
ZoomDiv(a, b) ==
    ZoomOf(a.e2 - b.e2, a.e3 - b.e3, a.e5 - b.e5, a.e11 - b.e11)

\* the natural logarithm of a factor, in millionths
MicroLog(z) ==
    z.e2 * 693147 + z.e3 * 1098612 + z.e5 * 1609438 + z.e11 * 2397895

\* a < b, by the logarithms
ZoomLess(a, b) == MicroLog(a) < MicroLog(b)
ZoomMin(a, b) == IF ZoomLess(b, a) THEN b ELSE a
ZoomMax(a, b) == IF ZoomLess(a, b) THEN b ELSE a

\* as ZoomIn, without the upper limit
ZoomInUnclamped(prev) == ZoomMul(prev, ButtonStep)

\* handleZoomIn: Math.min(prev * 1.2, 5)
ZoomIn(prev) == ZoomMin(ZoomMul(prev, ButtonStep), MaxZoom)

\* handleZoomOut: Math.max(prev / 1.2, 0.1)
ZoomOut(prev) == ZoomMax(ZoomDiv(prev, ButtonStep), MinZoom)

\* the deltaY of a wheel event: up, none, down
WheelDeltas == { -100, 0, 100 }

\* e.deltaY > 0 ? 0.9 : 1.1
WheelStep(deltaY) == IF deltaY > 0 THEN WheelDownStep ELSE WheelUpStep

\* onWheel: Math.max(0.1, Math.min(5, prev * delta))
WheelZoom(prev, deltaY) ==
    ZoomMax(MinZoom, ZoomMin(MaxZoom, ZoomMul(prev, WheelStep(deltaY))))

---------------------------------------------------------------------------
(* DxfViewer: pan *)

\* useState({ x: 0, y: 0 })
Origin == [x |-> 0, y |-> 0]

\* the clientX, clientY of mouse events
Pointers == { [x |-> 0, y |-> 0], [x |-> 30, y |-> -20] }

\* as DragStartAt, the pan left out
DragStartIgnoresPan(pointer, p) == pointer

\* handleMouseDown: { x: e.clientX - pan.x, y: e.clientY - pan.y }
DragStartAt(pointer, p) == [x |-> pointer.x - p.x, y |-> pointer.y - p.y]

\* handleMouseMove: { x: e.clientX - dragStart.x, y: e.clientY - dragStart.y }
PanAt(pointer, start) == [x |-> pointer.x - start.x, y |-> pointer.y - start.y]

---------------------------------------------------------------------------
(* DxfViewer: the files behind the map ids *)

\* map ids, as they are written into the request path
MapIds == { "1", "2" }

\* a drawing of one polyline on layer work_area
OnePolyline ==
    Flatten(<<SectionMarker, PolylineMarker, <<"8", "work_area">> >>
            \o VertexTags("0.0", "0.0") \o VertexTags("30.0", "40.0")
            \o << <<"0", "ENDSEC">> >>)

\* a file whose ENTITIES section holds a LINE only
NoPolyline ==
    Flatten(<<SectionMarker, <<"0", "LINE">>, <<"0", "ENDSEC">> >>)

\* what GET /cutting-maps/<id>/dxf answers with
FileOf(m) ==
    CASE m = "1" -> OnePolyline
      [] m = "2" -> NoPolyline

\* the request threw: api.get rejected
Rejected == <<"rejected">>

\* how the await of a load can end: no map has the id null
FetchOutcomes(m) == IF m = Null THEN { Rejected } ELSE { Rejected, FileOf(m) }

---------------------------------------------------------------------------
(* Bounds of the viewer runs *)

MaxWheel == 1
MaxDrags == 2
MaxLoads == 2
MaxCalls == 3

---------------------------------------------------------------------------
(* State *)

VARIABLES
    lines,              \* parseDxfContent: the lines of the document
    i,                  \* the loop index, counted from 1
    entities,
    currentEntity,
    inEntity,
    inEntitiesSection,
    currentLayer,
    vertexCount,
    vertices,
    expectingY,
    lastX,
    startLine,          \* history: the line that started currentEntity (0: none)
    origins,            \* history: for each element of entities, that line
    svgArg,             \* convertDxfToSvg: the entities argument
    viewport,           \* its width and height arguments
    svg,                \* its result
    svgContent,         \* DxfViewer state
    error,
    loading,
    zoom,
    pan,
    isDragging,
    dragStart,
    mapId,              \* the mapId prop
    inFlight,           \* the loads whose fetch has not resolved
    loadCount,          \* history: how many loads have been started
    latest,             \* history: what the most recently started load showed
    wheelTicks,         \* history: wheel events since zoom was last 1
    dragCount,          \* history: how many drags have been started
    grabbed,            \* history: pan and pointer at the last mouse-down
    calls,              \* history: the parse-and-project runs made so far
    pc                  \* where the run is

parseVars ==
    <<lines, i, entities, currentEntity, inEntity, inEntitiesSection, currentLayer,
      vertexCount, vertices, expectingY, lastX, startLine, origins>>
svgVars == <<svgArg, viewport, svg>>
viewVars == <<svgContent, error, loading>>
gestureVars == <<zoom, pan, isDragging, dragStart, wheelTicks, dragCount, grabbed>>
loadVars == <<mapId, inFlight, loadCount, latest>>
vars == <<parseVars, svgVars, viewVars, gestureVars, loadVars, calls, pc>>

\* the locals of parseDxfContent as one record
Locals ==
    [entities |-> entities, currentEntity |-> currentEntity, inEntity |-> inEntity,
     inEntitiesSection |-> inEntitiesSection, currentLayer |-> currentLayer,
     vertexCount |-> vertexCount, vertices |-> vertices, expectingY |-> expectingY,
     lastX |-> lastX]

SetLocals(s) ==
    /\ entities' = s.entities
    /\ currentEntity' = s.currentEntity
    /\ inEntity' = s.inEntity
    /\ inEntitiesSection' = s.inEntitiesSection
    /\ currentLayer' = s.currentLayer
    /\ vertexCount' = s.vertexCount
    /\ vertices' = s.vertices
    /\ expectingY' = s.expectingY
    /\ lastX' = s.lastX

DefaultViewport == [width |-> ViewWidth, height |-> ViewHeight]

ParserAtStart ==
    /\ i = 1
    /\ entities = InitialLocals.entities
    /\ currentEntity = InitialLocals.currentEntity
    /\ inEntity = InitialLocals.inEntity
    /\ inEntitiesSection = InitialLocals.inEntitiesSection
    /\ currentLayer = InitialLocals.currentLayer
    /\ vertexCount = InitialLocals.vertexCount
    /\ vertices = InitialLocals.vertices
    /\ expectingY = InitialLocals.expectingY
    /\ lastX = InitialLocals.lastX
    /\ startLine = 0
    /\ origins = <<>>

\* as ParseDxfContent, were the list of entities kept from one call to the
\* next
ParseDxfContentKeepsList(ls) ==
    PushCurrent(ScanFrom([InitialLocals EXCEPT !.entities = entities], ls, 1))

\* what parseDxfContent returns for the lines ls
ParseDxfContent(ls) == PushCurrent(ScanFrom(InitialLocals, ls, 1))

\* The argument of parseDxfContent: a buffer of bytes, held line by line, or
\* a value that is no buffer. A line of the buffer is its text, or BadBytes
\* when its bytes are no UTF-8.
BadBytes == "<bytes that are no UTF-8>"

Buffer(raw) == [isBuffer |-> TRUE, raw |-> raw]

NotABuffer == [isBuffer |-> FALSE, raw |-> <<>>]

\* U+FFFD, which the decoder puts where the bytes are malformed
ReplacementCharacter == "<U+FFFD>"

\* new TextDecoder().decode(dxfContent) throws a TypeError for a value that
\* is no buffer, and for nothing else: the decoder is not made with fatal
DecodeThrows(content) == ~content.isBuffer

\* the text, split in lines: malformed bytes are replaced, decoding goes on
Decode(content) ==
    [k \in 1..Len(content.raw) |->
        IF content.raw[k] = BadBytes THEN ReplacementCharacter ELSE content.raw[k]]

\* parseDxfContent with its try and catch: [] when the decoder throws
ParseDxfBytes(content) ==
    IF DecodeThrows(content) THEN <<>> ELSE ParseDxfContent(Decode(content))

\* the most recently started load has not resolved
NotYet == [drawing |-> EmptyString, error |-> "pending"]

\* the state of the component when it mounts with no map selected
ViewerAtStart ==
    /\ zoom = InitialZoom
    /\ pan = Origin
    /\ isDragging = FALSE
    /\ dragStart = Origin
    /\ mapId = Null
    /\ inFlight = {}
    /\ loadCount = 0
    /\ latest = NotYet
    /\ wheelTicks = 0
    /\ dragCount = 0
    /\ grabbed = [pan |-> Origin, pointer |-> Origin]
    /\ calls = <<>>

---------------------------------------------------------------------------
(* One load: the fetched document is parsed, projected and shown *)

\* loadDxfFile has set loading and cleared error; the bytes have arrived and
\* parseDxfContent starts on them
Init ==
    /\ lines \in Documents
    /\ ParserAtStart
    /\ ViewerAtStart
    /\ svgArg = JsNull
    /\ viewport = DefaultViewport
    /\ svg = EmptyString
    /\ svgContent = EmptyString
    /\ error = NoError
    /\ loading = TRUE
    /\ pc = "scan"

\* one pass of the for loop
ScanLine ==
    /\ pc = "scan"
    /\ i <= Len(lines)
    /\ LET s == Iteration(Locals, lines, i)
       IN /\ SetLocals(s)
          /\ startLine' = IF inEntitiesSection /\ lines[i] = "0" /\ HasNext(lines, i)
                             /\ lines[i + 1] = "LWPOLYLINE"
                          THEN i ELSE startLine
          /\ origins' = IF Len(s.entities) > Len(entities)
                        THEN Append(origins, startLine) ELSE origins
    /\ i' = i + 1
    /\ UNCHANGED <<lines, svgVars, viewVars, gestureVars, loadVars, calls, pc>>

\* after the loop: the last entity is kept or not, and the list is returned
ParseReturn ==
    /\ pc = "scan"
    /\ i > Len(lines)
    /\ entities' = PushCurrent(Locals)
    /\ origins' = IF Len(PushCurrent(Locals)) > Len(entities)
                  THEN Append(origins, startLine) ELSE origins
    /\ pc' = "parsed"
    /\ UNCHANGED <<lines, i, currentEntity, inEntity, inEntitiesSection, currentLayer,
                   vertexCount, vertices, expectingY, lastX, startLine, svgVars,
                   viewVars, gestureVars, loadVars, calls>>

\* entities.length === 0: setError, return, finally setLoading(false)
ShowNoEntities ==
    /\ pc = "parsed"
    /\ Len(entities) = 0
    /\ error' = ErrNoEntities
    /\ loading' = FALSE
    /\ pc' = "done"
    /\ UNCHANGED <<parseVars, svgVars, svgContent, gestureVars, loadVars, calls>>

\* convertDxfToSvg(entities, 800, 600), then setSvgContent unless the string
\* is empty or short; finally setLoading(false)
Render ==
    /\ pc = "parsed"
    /\ Len(entities) # 0
    /\ svgArg' = JsArray(entities)
    /\ svg' = ConvertDxfToSvg(JsArray(entities), ViewWidth, ViewHeight)
    /\ IF SvgRejected(svg')
       THEN error' = ErrNoSvg /\ svgContent' = svgContent
       ELSE error' = error /\ svgContent' = svg'
    /\ loading' = FALSE
    /\ pc' = "done"
    /\ UNCHANGED <<parseVars, viewport, gestureVars, loadVars, calls>>

Next == ScanLine \/ ParseReturn \/ ShowNoEntities \/ Render

Spec == Init /\ [][Next]_vars

---------------------------------------------------------------------------
(* convertDxfToSvg called directly *)

Points == { [x |-> Fin(0), y |-> Fin(0)], [x |-> Fin(10), y |-> Fin(5)] }

VertexLists == UNION { [1..n -> Points] : n \in 0..MaxVerts }

Polyline(layer, vs) ==
    [type |-> "LWPOLYLINE",
     data |-> [layer |-> layer, vertexCount |-> UndefNum],
     vertices |-> vs]

DirectEntities == { Polyline(l, vs) : l \in AllowedLayers \cup {"scrap"}, vs \in VertexLists }

Pt(x, y) == [x |-> Fin(x), y |-> Fin(y)]

\* the two-polyline drawing as an entity list
TwoPolylines ==
    << [type |-> "LWPOLYLINE", data |-> [layer |-> "0", vertexCount |-> Fin(4)],
        vertices |-> <<Pt(0, 0), Pt(100, 0), Pt(100, 50), Pt(0, 50)>>],
       [type |-> "LWPOLYLINE", data |-> [layer |-> "details", vertexCount |-> Fin(3)],
        vertices |-> <<Pt(10, 10), Pt(40, 10), Pt(40, 30)>>] >>

\* drawings whose box has no width or no height: a horizontal segment, a
\* vertical segment, a single point
Degenerate ==
    { <<Polyline("0", <<Pt(0, 0), Pt(10, 0)>>)>>,
      <<Polyline("0", <<Pt(0, 0), Pt(0, 5)>>)>>,
      <<Polyline("details", <<Pt(3, 4)>>)>> }

Arguments ==
    { JsArray(es) : es \in UNION { [1..n -> DirectEntities] : n \in 0..MaxEnts } }
        \cup { JsArray(es) : es \in Degenerate }
        \cup { JsArray(TwoPolylines), JsNull }

\* the width and height arguments: the defaults, and a tall viewport
Viewports == { DefaultViewport, [width |-> 300, height |-> 900] }

SvgInit ==
    /\ lines = <<>>
    /\ ParserAtStart
    /\ ViewerAtStart
    /\ svgArg \in Arguments
    /\ viewport \in Viewports
    /\ svg = EmptyString
    /\ svgContent = EmptyString
    /\ error = NoError
    /\ loading = FALSE
    /\ pc = "call"

CallConvert ==
    /\ pc = "call"
    /\ svg' = ConvertDxfToSvg(svgArg, viewport.width, viewport.height)
    /\ pc' = "returned"
    /\ UNCHANGED <<parseVars, svgArg, viewport, viewVars, gestureVars, loadVars, calls>>

SvgNext == CallConvert

SvgSpec == SvgInit /\ [][SvgNext]_vars

---------------------------------------------------------------------------
(* parseDxfContent then convertDxfToSvg, called again and again *)

PureDocuments == { TwoPolylinesFloat, TwoPolylinesInt, OnePolyline, NoPolyline }

\* a file that is no text: every line of it is malformed
Garbage == <<BadBytes, BadBytes, BadBytes>>

PureContents ==
    { Buffer(doc) : doc \in PureDocuments } \cup { Buffer(Garbage), NotABuffer }

PureInit ==
    /\ lines = <<>>
    /\ ParserAtStart
    /\ ViewerAtStart
    /\ svgArg = JsNull
    /\ viewport = DefaultViewport
    /\ svg = EmptyString
    /\ svgContent = EmptyString
    /\ error = NoError
    /\ loading = FALSE
    /\ pc = "pair"

\* one run of the pair on some bytes and some viewport size
RunPair ==
    /\ pc = "pair"
    /\ Len(calls) < MaxCalls
    /\ \E content \in PureContents, size \in Viewports :
          /\ lines' = IF DecodeThrows(content) THEN <<>> ELSE Decode(content)
          /\ entities' = ParseDxfBytes(content)
          /\ svgArg' = JsArray(entities')
          /\ viewport' = size
          /\ svg' = ConvertDxfToSvg(svgArg', size.width, size.height)
          /\ calls' = Append(calls, [content |-> content, document |-> lines',
                                     entities |-> entities',
                                     viewport |-> size, markup |-> svg'])
    /\ UNCHANGED <<i, currentEntity, inEntity, inEntitiesSection, currentLayer,
                   vertexCount, vertices, expectingY, lastX, startLine, origins,
                   viewVars, gestureVars, loadVars, pc>>

\* the projector called on its own, with a value that is no array
RunConvert ==
    /\ pc = "pair"
    /\ \E size \in Viewports :
          /\ svgArg' = JsNull
          /\ viewport' = size
          /\ svg' = ConvertDxfToSvg(svgArg', size.width, size.height)
    /\ UNCHANGED <<parseVars, viewVars, gestureVars, loadVars, calls, pc>>

PureNext == RunPair \/ RunConvert

PureSpec == PureInit /\ [][PureNext]_vars

---------------------------------------------------------------------------
(* DxfViewer: the mounted component *)

ViewInit ==
    /\ lines = <<>>
    /\ ParserAtStart
    /\ ViewerAtStart
    /\ svgArg = JsNull
    /\ viewport = DefaultViewport
    /\ svg = EmptyString
    /\ svgContent = EmptyString
    /\ error = NoError
    /\ loading = FALSE
    /\ pc = "view"

\* as GestureFrame, were a gesture to clear the drawing
GestureFrameClearsDrawing ==
    /\ svgContent' = EmptyString
    /\ UNCHANGED <<parseVars, svgVars, error, loading, loadVars, calls, pc>>

\* what the zoom, wheel, mouse and reset handlers do not touch: they call no
\* setter but setZoom, setPan, setIsDragging, setDragStart, and no function
GestureFrame == UNCHANGED <<parseVars, svgVars, viewVars, loadVars, calls, pc>>

HandleZoomIn ==
    /\ pc = "view"
    /\ zoom' = ZoomIn(zoom)
    /\ UNCHANGED <<pan, isDragging, dragStart, wheelTicks, dragCount, grabbed>>
    /\ GestureFrame

HandleZoomOut ==
    /\ pc = "view"
    /\ zoom' = ZoomOut(zoom)
    /\ UNCHANGED <<pan, isDragging, dragStart, wheelTicks, dragCount, grabbed>>
    /\ GestureFrame

\* the inline onWheel of the view area
OnWheel ==
    /\ pc = "view"
    /\ wheelTicks < MaxWheel
    /\ \E deltaY \in WheelDeltas : zoom' = WheelZoom(zoom, deltaY)
    /\ wheelTicks' = wheelTicks + 1
    /\ UNCHANGED <<pan, isDragging, dragStart, dragCount, grabbed>>
    /\ GestureFrame

\* as HandleResetZoom, without the setPan
HandleResetZoomKeepsPan ==
    /\ pc = "view"
    /\ zoom' = InitialZoom
    /\ wheelTicks' = 0
    /\ UNCHANGED <<pan, isDragging, dragStart, dragCount, grabbed>>
    /\ GestureFrame

\* setZoom(1), setPan({ x: 0, y: 0 }): one render
HandleResetZoom ==
    /\ pc = "view"
    /\ zoom' = InitialZoom
    /\ pan' = Origin
    /\ wheelTicks' = 0
    /\ UNCHANGED <<isDragging, dragStart, dragCount, grabbed>>
    /\ GestureFrame

HandleMouseDown ==
    /\ pc = "view"
    /\ dragCount < MaxDrags
    /\ \E pointer \in Pointers :
          /\ dragStart' = DragStartAt(pointer, pan)
          /\ grabbed' = [pan |-> pan, pointer |-> pointer]
    /\ isDragging' = TRUE
    /\ dragCount' = dragCount + 1
    /\ UNCHANGED <<zoom, pan, wheelTicks>>
    /\ GestureFrame

HandleMouseMove ==
    /\ pc = "view"
    /\ \E pointer \in Pointers :
          pan' = IF isDragging THEN PanAt(pointer, dragStart) ELSE pan
    /\ UNCHANGED <<zoom, isDragging, dragStart, wheelTicks, dragCount, grabbed>>
    /\ GestureFrame

\* onMouseUp and onMouseLeave
HandleMouseUp ==
    /\ pc = "view"
    /\ isDragging' = FALSE
    /\ UNCHANGED <<zoom, pan, dragStart, wheelTicks, dragCount, grabbed>>
    /\ GestureFrame

\* as LoadDxfFileStart, without the setError(null)
LoadDxfFileStartKeepsError(m) ==
    /\ loadCount < MaxLoads
    /\ loading' = TRUE
    /\ inFlight' = inFlight \cup { [id |-> loadCount + 1, mapId |-> m] }
    /\ loadCount' = loadCount + 1
    /\ latest' = NotYet
    /\ UNCHANGED <<svgContent, error>>

\* loadDxfFile up to its await: setLoading(true), setError(null), the request
LoadDxfFileStart(m) ==
    /\ loadCount < MaxLoads
    /\ loading' = TRUE
    /\ error' = NoError
    /\ inFlight' = inFlight \cup { [id |-> loadCount + 1, mapId |-> m] }
    /\ loadCount' = loadCount + 1
    /\ latest' = NotYet
    /\ UNCHANGED svgContent

\* the parent passes the id of another map and the effect loads it
ChangeMapId ==
    /\ pc = "view"
    /\ \E m \in MapIds :
          /\ m # mapId
          /\ mapId' = m
          /\ LoadDxfFileStart(m)
    /\ UNCHANGED <<parseVars, svgVars, gestureVars, calls, pc>>

\* the refresh button and the load button: onClick={loadDxfFile}
Refresh ==
    /\ pc = "view"
    /\ LoadDxfFileStart(mapId)
    /\ UNCHANGED <<mapId, parseVars, svgVars, gestureVars, calls, pc>>

\* loadDxfFile after its await, for one way the await ends: which of the two
\* functions ran, what they returned, and what is handed to setError
\* (NoError: no call) and to setSvgContent (EmptyString: no call)
AfterFetch(outcome) ==
    IF outcome = Rejected
    THEN [ran |-> "none", entities |-> <<>>, markup |-> EmptyString,
          error |-> ErrLoad, drawing |-> EmptyString]
    ELSE LET es == ParseDxfContent(outcome)
             text == ConvertDxfToSvg(JsArray(es), ViewWidth, ViewHeight)
         IN IF Len(es) = 0
            THEN [ran |-> "parse", entities |-> es, markup |-> EmptyString,
                  error |-> ErrNoEntities, drawing |-> EmptyString]
            ELSE IF SvgRejected(text)
            THEN [ran |-> "both", entities |-> es, markup |-> text,
                  error |-> ErrNoSvg, drawing |-> EmptyString]
            ELSE [ran |-> "both", entities |-> es, markup |-> text,
                  error |-> NoError, drawing |-> text]

\* AfterFetch as a table over every way a fetch can end
AfterFetchOf ==
    [outcome \in UNION { FetchOutcomes(m) : m \in MapIds \cup {Null} } |->
        AfterFetch(outcome)]

\* the fetch of one load ends and the rest of loadDxfFile runs, finally
\* setLoading(false)
LoadDxfFileResume ==
    /\ pc = "view"
    /\ \E r \in inFlight : \E outcome \in FetchOutcomes(r.mapId) :
          LET a == AfterFetchOf[outcome]
          IN /\ inFlight' = inFlight \ {r}
             /\ lines' = IF a.ran = "none" THEN lines ELSE outcome
             /\ entities' = IF a.ran = "none" THEN entities ELSE a.entities
             /\ svgArg' = IF a.ran = "both" THEN JsArray(a.entities) ELSE svgArg
             /\ svg' = IF a.ran = "both" THEN a.markup ELSE svg
             /\ error' = IF a.error = NoError THEN error ELSE a.error
             /\ svgContent' = IF a.drawing = EmptyString THEN svgContent ELSE a.drawing
             /\ latest' = IF r.id = loadCount
                          THEN [drawing |-> a.drawing, error |-> a.error]
                          ELSE latest
    /\ loading' = FALSE
    /\ UNCHANGED <<i, currentEntity, inEntity, inEntitiesSection, currentLayer,
                   vertexCount, vertices, expectingY, lastX, startLine, origins,
                   viewport, gestureVars, mapId, loadCount, calls, pc>>

ViewNext ==
    \/ HandleZoomIn \/ HandleZoomOut \/ OnWheel \/ HandleResetZoom
    \/ HandleMouseDown \/ HandleMouseMove \/ HandleMouseUp
    \/ ChangeMapId \/ Refresh \/ LoadDxfFileResume

ViewSpec == ViewInit /\ [][ViewNext]_vars

---------------------------------------------------------------------------
(* The document as the DXF format reads it: group-code / value pairs *)

\* the tag pairs of the entity whose marker is the pair at lines m, m+1: those
\* from line j on, up to the next pair with group code 0
RECURSIVE TagsFrom(_, _)
TagsFrom(ls, j) ==
    IF j + 1 > Len(ls) \/ ls[j] = "0" THEN <<>>
    ELSE << <<ls[j], ls[j + 1]>> >> \o TagsFrom(ls, j + 2)

OwnTags(ls, m) == TagsFrom(ls, m + 2)

\* the value of the entity's last code-8 tag, Undefined when it has none
RECURSIVE LayerOfTags(_, _)
LayerOfTags(tags, layer) ==
    IF tags = <<>> THEN layer
    ELSE LayerOfTags(Tail(tags), IF Head(tags)[1] = "8" THEN Head(tags)[2] ELSE layer)

OwnLayer(ls, m) == LayerOfTags(OwnTags(ls, m), Undefined)

\* the vertices the entity's own code-10 / code-20 tags pair up to, a 20 with
\* no pending 10 dropped and a later 10 replacing a pending one
RECURSIVE VerticesOfTags(_, _, _)
VerticesOfTags(tags, pending, acc) ==
    IF tags = <<>> THEN acc
    ELSE LET code == Head(tags)[1]
             value == ParseFloat(Head(tags)[2])
         IN IF code = "10" THEN VerticesOfTags(Tail(tags), value, acc)
            ELSE IF code = "20" /\ pending # NullNum
            THEN VerticesOfTags(Tail(tags), NullNum, Append(acc, [x |-> pending, y |-> value]))
            ELSE VerticesOfTags(Tail(tags), pending, acc)

OwnVertices(ls, m) == VerticesOfTags(OwnTags(ls, m), NullNum, <<>>)

CountCode(tags, code) == Cardinality({ k \in 1..Len(tags) : tags[k][1] = code })

\* every value after a code 90, 10 or 20 of the entity is a number
NumericTags(tags) ==
    \A k \in 1..Len(tags) :
        tags[k][1] \in {"90", "10", "20"} => ~IsNaN(ParseFloat(tags[k][2]))

\* the marker lines of the LWPOLYLINE entities of the ENTITIES section, in
\* order: the section runs from the pair 2/ENTITIES to the pair 0/ENDSEC
RECURSIVE PolylinesFrom(_, _, _)
PolylinesFrom(ls, j, inSection) ==
    IF j + 1 > Len(ls) THEN <<>>
    ELSE IF ls[j] = "2" /\ ls[j + 1] = "ENTITIES" THEN PolylinesFrom(ls, j + 2, TRUE)
    ELSE IF ls[j] = "0" /\ ls[j + 1] = "ENDSEC" THEN PolylinesFrom(ls, j + 2, FALSE)
    ELSE IF inSection /\ ls[j] = "0" /\ ls[j + 1] = "LWPOLYLINE"
    THEN <<j>> \o PolylinesFrom(ls, j + 2, inSection)
    ELSE PolylinesFrom(ls, j + 2, inSection)

SectionPolylines(ls) == PolylinesFrom(ls, 1, FALSE)

\* the layer and the vertex list of each returned entity
Shapes(ents) ==
    [k \in 1..Len(ents) |-> [layer |-> ents[k].data.layer, vertices |-> ents[k].vertices]]

Returned == pc \in {"parsed", "done"}

---------------------------------------------------------------------------
(* C1 *)

\* nothing follows the 0/ENDSEC pair that ends the section
EndsWithSection(ls) ==
    \A j \in 1..Len(ls) :
        (j % 2 = 1 /\ ls[j] = "0" /\ ls[j + 1] = "ENDSEC") => j + 1 = Len(ls)

\* the documents C1 speaks of: every LWPOLYLINE of the ENTITIES section is on
\* an allowed layer and its numbers are numbers
AllPolylinesAllowed(ls) ==
    /\ EndsWithSection(ls)
    /\ \A k \in 1..Len(SectionPolylines(ls)) :
          LET m == SectionPolylines(ls)[k]
          IN OwnLayer(ls, m) \in AllowedLayers /\ NumericTags(OwnTags(ls, m))

\* the entities the format puts in the document, in marker order
ExpectedShapes(ls) ==
    [k \in 1..Len(SectionPolylines(ls)) |->
        [layer |-> OwnLayer(ls, SectionPolylines(ls)[k]),
         vertices |-> OwnVertices(ls, SectionPolylines(ls)[k])]]

\* C1: for a document whose LWPOLYLINE entities are all on allowed layers,
\* parseDxfContent returns exactly those entities, in marker order, each with
\* the vertices its own code-10 / code-20 pairs give, in order.
C1_ReturnsExactlyThePolylines ==
    (Returned /\ AllPolylinesAllowed(lines)) => Shapes(entities) = ExpectedShapes(lines)

---------------------------------------------------------------------------
(* C2 *)

\* the document without the tag pairs that belong to entities of other types
\* (the pairs after a 0/<type> marker that is neither LWPOLYLINE nor ENDSEC)
RECURSIVE StripForeign(_, _, _)
StripForeign(ls, j, foreign) ==
    IF j + 1 > Len(ls) THEN <<>>
    ELSE IF ls[j] = "0"
    THEN <<ls[j], ls[j + 1]>>
         \o StripForeign(ls, j + 2, ls[j + 1] \notin {"LWPOLYLINE", "ENDSEC"})
    ELSE (IF foreign THEN <<>> ELSE <<ls[j], ls[j + 1]>>)
         \o StripForeign(ls, j + 2, foreign)

WithoutForeignTags(ls) == StripForeign(ls, 1, FALSE)

\* C2: the tags of an entity of another type add no vertex to, and change the
\* layer of, no returned entity: the result is the one the document gives
\* with those tags taken out.
C2_OtherEntityTagsIgnored ==
    Returned => entities = ParseDxfContent(WithoutForeignTags(lines))

---------------------------------------------------------------------------
(* C3 *)

\* C3: every returned entity has an allowed layer, and it comes from a
\* LWPOLYLINE whose own layer tag names an allowed layer: a polyline on
\* another layer, or with no layer tag, is not returned.
C3_OnlyAllowedLayersReturned ==
    Returned =>
        \A k \in 1..Len(entities) :
            /\ entities[k].data.layer \in AllowedLayers
            /\ OwnLayer(lines, origins[k]) \in AllowedLayers

---------------------------------------------------------------------------
(* C4 *)

\* C4: an entity never has more vertices than it has code-10 tags, while it
\* is being read and when it is returned.
C4_VerticesBoundedByXTags ==
    /\ (pc = "scan" /\ startLine # 0) =>
            Len(vertices) <= CountCode(OwnTags(lines, startLine), "10")
    /\ \A k \in 1..Len(entities) :
            Len(entities[k].vertices) <= CountCode(OwnTags(lines, origins[k]), "10")

---------------------------------------------------------------------------
(* C5 *)

\* C5: the two-polyline drawing is returned as 2 entities, layer "0" with
\* (0,0),(100,0),(100,50),(0,50) then layer "details" with (10,10),(40,10),
\* (40,30), whether its numbers are written "10.0" or "10".
C5_TwoPolylinesRead ==
    (Returned /\ lines \in {TwoPolylinesInt, TwoPolylinesFloat}) =>
        Shapes(entities) = Shapes(TwoPolylines)

---------------------------------------------------------------------------
(* C6 *)

NoNaNInside(entity) ==
    /\ ~IsNaN(entity.data.vertexCount)
    /\ \A k \in 1..Len(entity.vertices) :
          ~IsNaN(entity.vertices[k].x) /\ ~IsNaN(entity.vertices[k].y)

\* C6: an entity with a non-numeric value after a code 90, 10 or 20 is
\* dropped: no returned entity holds a non-numeric count or coordinate, and
\* no returned entity comes from a polyline with such a value.
C6_MalformedEntityDropped ==
    Returned =>
        \A k \in 1..Len(entities) :
            /\ NoNaNInside(entities[k])
            /\ NumericTags(OwnTags(lines, origins[k]))

---------------------------------------------------------------------------
(* C7 *)

\* C7: for the empty entity list convertDxfToSvg returns a markup string
\* (nothing was thrown inside it) that holds no path element.
C7_EmptyListNoPath ==
    (pc = "returned" /\ svgArg = JsArray(<<>>)) =>
        (svg.kind = "svg" /\ svg.paths = <<>>)

C7_Witness ==
    pc = "returned" /\ svgArg = JsArray(<<>>) /\ svg.kind = "svg" /\ svg.paths = <<>>

---------------------------------------------------------------------------
(* C8 *)

NoVertex(ents) == \A k \in 1..Len(ents) : ents[k].vertices = <<>>

FiniteTransform(t) ==
    /\ IsFinite(t.translateX) /\ IsFinite(t.translateY) /\ IsFinite(t.scale)
    /\ IsFinite(t.translateCenterX) /\ IsFinite(t.translateCenterY)

\* C8: when the parsed entities hold no vertex, the load ends as an empty
\* result: nothing is put on display, an error is reported, and a markup that
\* was produced carries no NaN or infinite number in its transform.
C8_NoVertexIsEmptyResult ==
    (pc = "done" /\ NoVertex(entities)) =>
        /\ svgContent = EmptyString
        /\ error # NoError
        /\ svg # EmptyString => FiniteTransform(svg.transform)

---------------------------------------------------------------------------
(* C9 *)

\* the paths of the entities with at least 2 vertices, in entity order
PathsOfSegments(ents) ==
    LET drawn == SelectSeq(ents, LAMBDA e : Len(e.vertices) >= 2)
    IN [k \in 1..Len(drawn) |-> PathOf(drawn[k])]

\* C9: the path elements are those of the entities with at least 2 vertices:
\* an entity with exactly 1 vertex gets none and changes none of the others.
C9_SinglePointSkipped ==
    (pc = "returned" /\ svgArg.isArray) => svg.paths = PathsOfSegments(svgArg.items)

---------------------------------------------------------------------------
(* C10 *)

\* the stroke table as the claim gives it
StrokeTable(layer) ==
    CASE layer \in {"0", "work_area"} -> [stroke |-> "#2E86AB", strokeWidth |-> "2"]
      [] layer = "details" -> [stroke |-> "#A23B72", strokeWidth |-> "1.5"]
      [] OTHER -> [stroke |-> "black", strokeWidth |-> "1"]

PathPoints(path) == [k \in 1..Len(path.d) |-> [x |-> path.d[k].x, y |-> path.d[k].y]]

HasStyle(path, style) ==
    path.stroke = style.stroke /\ path.strokeWidth = style.strokeWidth

\* f places the paths ps on the entities ents in increasing order, each path
\* on an entity with its vertices, and no entity with a segment is left out
PlacesInOrder(f, ps, ents) ==
    /\ \A a, b \in 1..Len(ps) : a < b => f[a] < f[b]
    /\ \A k \in 1..Len(ps) : PathPoints(ps[k]) = ents[f[k]].vertices
    /\ \A j \in 1..Len(ents) :
          Len(ents[j].vertices) >= 2 => \E k \in 1..Len(ps) : f[k] = j

\* C10: the paths come in entity order, each with the stroke the table gives
\* for its entity's layer; the two-polyline drawing at 800x600 gives exactly
\* 2 paths, the first boundary-styled and the second secondary-styled.
C10_StrokeByLayerInOrder ==
    (pc = "returned" /\ svgArg.isArray) =>
        /\ \E f \in [1..Len(svg.paths) -> 1..Len(svgArg.items)] :
              /\ PlacesInOrder(f, svg.paths, svgArg.items)
              /\ \A k \in 1..Len(svg.paths) :
                    HasStyle(svg.paths[k], StrokeTable(svgArg.items[f[k]].data.layer))
        /\ (svgArg.items = TwoPolylines /\ viewport = [width |-> 800, height |-> 600]) =>
              /\ Len(svg.paths) = 2
              /\ HasStyle(svg.paths[1], StrokeTable("0"))
              /\ HasStyle(svg.paths[2], StrokeTable("details"))

C10_Witness ==
    /\ pc = "returned"
    /\ svgArg = JsArray(TwoPolylines)
    /\ Len(svg.paths) = 2
    /\ svg.paths[1].stroke = "#2E86AB" /\ svg.paths[1].strokeWidth = "2"
    /\ svg.paths[2].stroke = "#A23B72" /\ svg.paths[2].strokeWidth = "1.5"

---------------------------------------------------------------------------
(* C11 *)

\* the argument is a list that holds at least one vertex
HasVertex(arg) ==
    arg.isArray /\ \E k \in 1..Len(arg.items) : Len(arg.items[k].vertices) > 0

\* JavaScript's a <= b: false when either side is NaN
Leq(a, b) == ~IsNaN(a) /\ ~IsNaN(b) /\ ~NumLess(b, a)

ZeroExtent(b) ==
    NumSub(b.maxX, b.minX) = Fin(0) \/ NumSub(b.maxY, b.minY) = Fin(0)

\* C11: when the bounding box of the drawing has zero width or zero height,
\* convertDxfToSvg still returns markup, and the scale in its transform is a
\* finite positive number.
C11_DegenerateBoxFiniteScale ==
    (pc = "returned" /\ HasVertex(svgArg) /\ ZeroExtent(Bounds(svgArg.items))) =>
        /\ svg.kind = "svg"
        /\ IsFinite(svg.transform.scale)
        /\ NumLess(Fin(0), svg.transform.scale)

---------------------------------------------------------------------------
(* C12 *)

\* every coordinate is a finite number and the box has width and height
NonDegenerate(b) ==
    /\ \A c \in {b.minX, b.maxX, b.minY, b.maxY} : IsFinite(c)
    /\ NumLess(b.minX, b.maxX)
    /\ NumLess(b.minY, b.maxY)

\* where the transform list translate(tx, ty) scale(s) translate(-cx, -cy)
\* of the g element puts the drawing point (x, y)
Project(t, x, y) ==
    [x |-> NumAdd(t.translateX, NumMul(t.scale, NumAdd(x, t.translateCenterX))),
     y |-> NumAdd(t.translateY, NumMul(t.scale, NumAdd(y, t.translateCenterY)))]

InsideViewport(q, w, h) ==
    /\ Leq(Fin(0), q.x) /\ Leq(q.x, w)
    /\ Leq(Fin(0), q.y) /\ Leq(q.y, h)

\* C12: for a box with width and height, the scale is min(width/dx,
\* height/dy) * 0.8 and the center is the middle of the box; the transform
\* puts the center of the box at (width/2, height/2) and every vertex inside
\* [0, width] x [0, height], and the projected box is at most 0.8 * width
\* wide and 0.8 * height high.
C12_BoxFitsViewport ==
    (pc = "returned" /\ svgArg.isArray /\ NonDegenerate(Bounds(svgArg.items))) =>
        LET b == Bounds(svgArg.items)
            t == svg.transform
            w == Fin(viewport.width)
            h == Fin(viewport.height)
            dx == NumSub(b.maxX, b.minX)
            dy == NumSub(b.maxY, b.minY)
            cx == NumDiv(NumAdd(b.minX, b.maxX), Fin(2))
            cy == NumDiv(NumAdd(b.minY, b.maxY), Fin(2))
        IN /\ svg.kind = "svg"
           /\ t.scale = NumMul(MathMin(NumDiv(w, dx), NumDiv(h, dy)), Rat(4, 5))
           /\ t.translateCenterX = NumNeg(cx) /\ t.translateCenterY = NumNeg(cy)
           /\ Project(t, cx, cy) = [x |-> NumDiv(w, Fin(2)), y |-> NumDiv(h, Fin(2))]
           /\ \A k \in 1..Len(svgArg.items) :
                 \A j \in 1..Len(svgArg.items[k].vertices) :
                    InsideViewport(Project(t, svgArg.items[k].vertices[j].x,
                                              svgArg.items[k].vertices[j].y), w, h)
           /\ Leq(NumMul(t.scale, dx), NumMul(Rat(4, 5), w))
           /\ Leq(NumMul(t.scale, dy), NumMul(Rat(4, 5), h))

\* a drawing with width and height has been projected, into either viewport
C12_Witness ==
    /\ pc = "returned"
    /\ svgArg.isArray /\ NonDegenerate(Bounds(svgArg.items))
    /\ Len(svgArg.items) = 2
    /\ viewport.width = 300
    /\ svg.kind = "svg"
    /\ svg.transform.scale = Rat(24, 1)

---------------------------------------------------------------------------
(* C13 *)

\* C13: when the list handed to convertDxfToSvg holds at least one vertex,
\* every vertex lies within the folded bounds, minX <= x <= maxX and
\* minY <= y <= maxY, and each of the four bounds is the coordinate of some
\* vertex.
C13_BoundsEncloseVertices ==
    HasVertex(svgArg) =>
        LET b == Bounds(svgArg.items)
            vs == UNION { { svgArg.items[k].vertices[j] :
                              j \in 1..Len(svgArg.items[k].vertices) } :
                          k \in 1..Len(svgArg.items) }
        IN /\ \A v \in vs : /\ Leq(b.minX, v.x) /\ Leq(v.x, b.maxX)
                             /\ Leq(b.minY, v.y) /\ Leq(v.y, b.maxY)
           /\ \E v \in vs : Leq(v.x, b.minX)
           /\ \E v \in vs : Leq(b.maxX, v.x)
           /\ \E v \in vs : Leq(v.y, b.minY)
           /\ \E v \in vs : Leq(b.maxY, v.y)

---------------------------------------------------------------------------
(* C14 *)

---------------------------------------------------------------------------
(* C15 *)

ZoomLeq(a, b) == ~ZoomLess(b, a)

\* C15: whatever zoom, wheel, reset, mouse and load actions have happened,
\* the zoom factor is at least 0.1 and at most 5.
C15_ZoomWithinLimits == ZoomLeq(MinZoom, zoom) /\ ZoomLeq(zoom, MaxZoom)

\* the zoom is at a limit while a drawing is shown, after a drag and a wheel
\* event
C15_Witness ==
    /\ zoom \in {MinZoom, MaxZoom}
    /\ wheelTicks > 0
    /\ pan # Origin
    /\ svgContent # EmptyString

---------------------------------------------------------------------------
(* C16 *)

\* a step of the zoom-in button, or of the wheel turned up
ZoomInAction ==
    \/ HandleZoomIn
    \/ OnWheel /\ zoom' = WheelZoom(zoom, -100)

\* C16: every zoom-in action, by the button or by the wheel, multiplies the
\* zoom by 1.1 and limits it to 5 (three of them from 1.0 give 1.331).
C16_ZoomInByTenth ==
    [][ZoomInAction => zoom' = ZoomMin(ZoomMul(zoom, WheelUpStep), MaxZoom)]_vars

---------------------------------------------------------------------------
(* C17 *)

\* C17: the reset action sets zoom to 1 and pan to (0, 0) in the same step,
\* from any state, and changes none of svgContent, error, loading.
C17_ResetInOneStep ==
    [][HandleResetZoom =>
          /\ zoom' = InitialZoom /\ pan' = Origin
          /\ UNCHANGED <<svgContent, error, loading>>]_vars

\* a reset has put the pan back at (0, 0) in the middle of a drag that no
\* mouse-move leads there, while a drawing is shown
C17_Witness ==
    /\ zoom = InitialZoom /\ pan = Origin
    /\ isDragging
    /\ \A p \in Pointers : PanAt(p, dragStart) # Origin
    /\ svgContent # EmptyString

---------------------------------------------------------------------------
(* C18 *)

\* C18: while a drag is active, a mouse-move to the pointer position p makes
\* the pan equal to the pan at mouse-down plus p minus the pointer position
\* at mouse-down, without any limit; with no drag active a mouse-move leaves
\* the pan as it is.
C18_PanFollowsPointer ==
    [][\A p \in Pointers :
          (HandleMouseMove /\ pan' = IF isDragging THEN PanAt(p, dragStart) ELSE pan) =>
              IF isDragging
              THEN pan' = [x |-> grabbed.pan.x + (p.x - grabbed.pointer.x),
                           y |-> grabbed.pan.y + (p.y - grabbed.pointer.y)]
              ELSE pan' = pan]_vars

\* a second drag, begun with the drawing already moved, has moved it further
C18_Witness ==
    /\ isDragging
    /\ dragCount = 2
    /\ grabbed.pan # Origin
    /\ pan # grabbed.pan
    /\ pan # Origin

---------------------------------------------------------------------------
(* C19 *)

Gesture ==
    \/ HandleZoomIn \/ HandleZoomOut \/ OnWheel \/ HandleResetZoom
    \/ HandleMouseDown \/ HandleMouseMove \/ HandleMouseUp

\* C19: the zoom, wheel, mouse and reset actions change nothing but zoom, pan
\* and the drag state: svgContent, error and loading stay, no load is
\* started, and neither parseDxfContent nor convertDxfToSvg runs.
C19_GesturesKeepDrawing ==
    [][Gesture => UNCHANGED <<svgContent, error, loading, inFlight, loadCount,
                              lines, entities, svgArg, svg>>]_vars

\* a drawing is shown, zoomed and moved
C19_Witness ==
    /\ svgContent # EmptyString
    /\ zoom # InitialZoom
    /\ pan # Origin
    /\ inFlight = {}

---------------------------------------------------------------------------
(* C20 *)

\* C20: once every started load has resolved, in whatever order, svgContent
\* and error are those of the most recently started load: the drawing it set
\* if it set one, and no message but its own.
C20_LastRequestWins ==
    (inFlight = {} /\ loadCount > 0) =>
        /\ latest.drawing # EmptyString => svgContent = latest.drawing
        /\ error \in {latest.error, NoError}

---------------------------------------------------------------------------
(* C21 *)

\* what the view area draws: the markup, when there is some and no load runs
DrawingShown == svgContent # EmptyString /\ ~loading

\* the fetch of the load started last has resolved with a file in which
\* parseDxfContent finds no entity, and the load has run to its end
NoEntitiesLoadEnds ==
    /\ LoadDxfFileResume
    /\ \E r \in inFlight \ inFlight' :
          /\ r.id = loadCount
          /\ r.mapId # Null
          /\ AfterFetchOf[FileOf(r.mapId)].ran = "parse"
          /\ lines' = FileOf(r.mapId)
          /\ error' = ErrNoEntities

\* C21: when a load ends with zero entities, an error message is shown and
\* no drawing is: not the markup of an earlier load either.
C21_NoEntitiesShowsNothing ==
    [][NoEntitiesLoadEnds => (error' # NoError /\ ~DrawingShown')]_vars

---------------------------------------------------------------------------
(* C22 *)

---------------------------------------------------------------------------
(* C28 *)

\* C28: loading is true as long as some load is in flight, also when loads
\* overlap, and false once every load has ended.
C28_LoadingWhileInFlight ==
    /\ inFlight # {} => loading
    /\ (inFlight = {} /\ loadCount > 0) => ~loading

---------------------------------------------------------------------------
(* C23 *)

\* a string, the empty one included
IsString(text) == text.kind \in {"svg", "empty"}

\* C23: no fault leaves the parser or the projector: the parser returns a
\* list, the empty one when it fails, the projector returns a string, the
\* empty one when it fails, and the viewer's test rejects the empty string.
C23_FaultsBecomeEmptyResults ==
    /\ \A k \in 1..Len(calls) :
          /\ DOMAIN calls[k].entities = 1..Len(calls[k].entities)
          /\ DecodeThrows(calls[k].content) => calls[k].entities = <<>>
          /\ IsString(calls[k].markup)
    /\ IsString(svg)
    /\ Throws(svgArg) => (svg = EmptyString /\ SvgRejected(svg))

\* the parser has been handed a value that is no buffer, and the projector,
\* in the narrow viewport, a value that is no array
C23_Witness ==
    /\ \E k \in 1..Len(calls) : DecodeThrows(calls[k].content)
    /\ Throws(svgArg)
    /\ viewport # DefaultViewport
    /\ svg = EmptyString

---------------------------------------------------------------------------
(* C24 *)

\* bytes that are no text at all
Undecodable(content) ==
    /\ content.isBuffer
    /\ content.raw # <<>>
    /\ \A k \in 1..Len(content.raw) : content.raw[k] = BadBytes

\* C24: bytes that cannot be decoded end the parse with an outcome of their
\* own: never with what the parse of a text without entities returns.
C24_UndecodableIsFatal ==
    \A a \in 1..Len(calls) : \A b \in 1..Len(calls) :
        (Undecodable(calls[a].content) /\ calls[b].content = Buffer(NoPolyline))
            => calls[a].entities # calls[b].entities

---------------------------------------------------------------------------
(* C25 *)

\* the lines at which a 2/ENTITIES pair starts
MarkerLines(ls) ==
    { k \in 1..Len(ls) : k % 2 = 1 /\ k < Len(ls) /\ ls[k] = "2" /\ ls[k + 1] = "ENTITIES" }

FirstMarker(ls) == CHOOSE k \in MarkerLines(ls) : \A other \in MarkerLines(ls) : k <= other

\* the document from its first section marker on, nothing when it has none
FromMarker(ls) ==
    IF MarkerLines(ls) = {} THEN <<>> ELSE SubSeq(ls, FirstMarker(ls), Len(ls))

\* C25: the scan picks nothing up before the 2/ENTITIES pair: the result is
\* the one the document gives from the marker on, and the empty list when
\* there is no marker.
C25_NothingBeforeSectionMarker ==
    /\ ~inEntitiesSection => (entities = <<>> /\ currentEntity = NoEntity
                                /\ currentLayer = Null /\ vertices = <<>>
                                /\ lastX = NullNum)
    /\ Returned => entities = ParseDxfContent(FromMarker(lines))
    /\ (Returned /\ MarkerLines(lines) = {}) => entities = <<>>

\* a polyline on layer "0" ahead of the marker, and behind the marker a
\* polyline that is returned: the only one
C25_Witness ==
    /\ Returned
    /\ MarkerLines(lines) # {}
    /\ \E k \in 1..(FirstMarker(lines) - 1) :
          lines[k] = "0" /\ lines[k + 1] = "LWPOLYLINE"
    /\ Len(entities) = 1
    /\ Len(entities[1].vertices) = 1

---------------------------------------------------------------------------
(* C26 *)

HasVertices(entity) == Len(entity.vertices) > 0

\* the entities that have a vertex, in list order: one path each
WithVertices(ents) == SelectSeq(ents, HasVertices)

---------------------------------------------------------------------------
(* C27 *)

\* the values a code-90 tag is given in place of its own
CountValues == {"2", "8", "10"}

\* the document with every value after a code 90 replaced by value
WithCount(ls, value) ==
    [k \in 1..Len(ls) |-> IF k % 2 = 0 /\ ls[k - 1] = "90" THEN value ELSE ls[k]]

\* C27: the value after a code 90 decides nothing about the result: a
\* document and the same document with other numbers after its 90 tags give
\* the same entities with the same layers and vertex lists.
C27_CountNotAuthoritative ==
    Returned =>
        \A value \in CountValues :
            Shapes(entities) = Shapes(ParseDxfContent(WithCount(lines, value)))

---------------------------------------------------------------------------
(* C29 *)

\* the lines at which a 0/ENDSEC pair starts behind the section marker
EndsecLines(ls) ==
    { k \in 1..Len(ls) :
         /\ k % 2 = 1 /\ k < Len(ls) /\ ls[k] = "0" /\ ls[k + 1] = "ENDSEC"
         /\ MarkerLines(ls) # {} /\ k > FirstMarker(ls) }

FirstEndsec(ls) == CHOOSE k \in EndsecLines(ls) : \A other \in EndsecLines(ls) : k <= other

\* the document up to the 0/ENDSEC pair that ends its ENTITIES section
UpToEndsec(ls) ==
    IF EndsecLines(ls) = {} THEN ls ELSE SubSeq(ls, 1, FirstEndsec(ls) + 1)

\* C29: what follows the 0/ENDSEC of the ENTITIES section changes nothing:
\* the entities, their layers and their vertex lists are those of the
\* document cut off at that pair.
C29_NothingAfterEndsec ==
    Returned => Shapes(entities) = Shapes(ParseDxfContent(UpToEndsec(lines)))

---------------------------------------------------------------------------
(* C30 *)

\* the X left pending by the tags: the value of the last code 10 with no
\* code 20 behind it
RECURSIVE PendingOfTags(_, _)
PendingOfTags(tags, pending) ==
    IF tags = <<>> THEN pending
    ELSE LET code == Head(tags)[1]
         IN IF code = "10" THEN PendingOfTags(Tail(tags), ParseFloat(Head(tags)[2]))
            ELSE IF code = "20" THEN PendingOfTags(Tail(tags), NullNum)
            ELSE PendingOfTags(Tail(tags), pending)

\* the tag pairs between the marker of the current polyline and line i
TagsRead ==
    [k \in 1..((i - startLine) \div 2 - 1) |->
        <<lines[startLine + 2 * k], lines[startLine + 2 * k + 1]>>]

\* the scan stands at the start of a pair, inside a polyline, and every pair
\* read since the polyline's marker is a tag of that polyline
AmongOwnTags ==
    /\ pc = "scan"
    /\ startLine > 0
    /\ currentEntity # NoEntity
    /\ i % 2 = 1
    /\ i > startLine
    /\ \A k \in 1..Len(TagsRead) : TagsRead[k][1] # "0"

\* C30: inside a polyline at most one X is pending: it is the X of the last
\* code-10 tag that no code-20 tag has followed, a later code 10 replacing an
\* earlier one; each code 20 that finds an X pending appends one vertex with
\* that X; a new polyline starts with no X pending and no vertex.
C30_OnePendingX ==
    AmongOwnTags =>
        /\ lastX = PendingOfTags(TagsRead, NullNum)
        /\ expectingY <=> lastX # NullNum
        /\ vertices = VerticesOfTags(TagsRead, NullNum, <<>>)

====
